---- MODULE Spec2Model ----
(***************************************************************************)
(* Model of the ticketing backend (Express routes, authenticate and        *)
(* validation middleware) and of the validators shared with the frontend.  *)
(*                                                                         *)
(* Strings are kept run-length encoded: a string is a sequence of runs     *)
(* [c |-> character, n |-> repetitions], adjacent runs having different    *)
(* characters, so that the limits of the validators (3, 20, 100, ...) are  *)
(* reached with the numbers the source uses.                               *)
(***************************************************************************)
EXTENDS Integers, Sequences, FiniteSets, TLC

VARIABLES
    users,      \* the users collection: documents [id, username, password]
    tickets,    \* the tickets collection: [id, title, description, status, createdBy]
    comments,   \* the comments collection: [id, content, ticketId, userId, username]
    nextId,     \* number of ObjectIds generated so far
    now,        \* the server clock, in hours
    issued,     \* the tokens returned by successful logins
    req,        \* the last HTTP request
    res,        \* the response sent to it
    ran,        \* the middleware and handler that ran for it, in order
    mw,         \* authenticate called on its own: the request, statuses sent, next() calls
    call,       \* a function called on its own: [fn, arg, out]
    authContext,    \* the value AuthProvider provides: [token, user, isLoggedIn]
    localStorage,   \* the browser's storage, by what getItem returns for each key
    inflight    \* the requests being served concurrently, each at its next step

vars == <<users, tickets, comments, nextId, now, issued, req, res, ran, mw, call,
          authContext, localStorage, inflight>>

clientVars == <<authContext, localStorage>>

appVars == <<users, tickets, comments, nextId, now, issued, req, res, ran>>

(***************************************************************************)
(* Bounds of the model.                                                    *)
(***************************************************************************)
MaxRuns == 3        \* runs in a string handed to a validator
MaxIds == 4         \* ObjectIds the store generates
MaxClock == 24      \* the clock stops advancing here (hours)
TickHours == 24     \* hours between two observations of the clock

(***************************************************************************)
(* Strings.                                                                *)
(***************************************************************************)
LowerCase == {"a", "b", "c", "d", "e", "f", "t", "u"}
UpperCase == {"A", "B", "T"}
Letters == LowerCase \cup UpperCase
Digits == {"0", "1", "2", "3", "4", "5", "6", "7", "8", "9"}
Whitespace == {" "}

Run(c, n) == [c |-> c, n |-> n]

RECURSIVE StrLen(_)
StrLen(s) == IF s = <<>> THEN 0 ELSE Head(s).n + StrLen(Tail(s))

IsCanonical(s) == \A i \in 1..(Len(s) - 1) : s[i].c # s[i + 1].c

RECURSIVE TrimStart(_)
TrimStart(s) ==
    IF s = <<>> THEN <<>>
    ELSE IF Head(s).c \in Whitespace THEN TrimStart(Tail(s))
    ELSE s

RECURSIVE TrimEnd(_)
TrimEnd(s) ==
    IF s = <<>> THEN <<>>
    ELSE IF s[Len(s)].c \in Whitespace THEN TrimEnd(SubSeq(s, 1, Len(s) - 1))
    ELSE s

\* String.prototype.trim
Trim(s) == TrimEnd(TrimStart(s))

\* the characters of s
Chars(s) == {s[i].c : i \in 1..Len(s)}

\* every canonical string of at most MaxRuns runs over the given characters and run lengths
Strings(chars, lens) ==
    LET runs == {Run(c, n) : c \in chars, n \in lens}
    IN  {s \in UNION {[1..k -> runs] : k \in 0..MaxRuns} : IsCanonical(s)}

\* the characters of s, one by one
RECURSIVE Expand(_)
Expand(s) ==
    IF s = <<>> THEN <<>>
    ELSE [i \in 1..Head(s).n |-> Head(s).c] \o Expand(Tail(s))

ToLower(c) ==
    CASE c = "A" -> "a"
      [] c = "B" -> "b"
      [] c = "T" -> "t"
      [] OTHER -> c

\* new RegExp(pattern, 'i').test(text), for a pattern of literal characters and "."
RegexTestIgnoreCase(pattern, text) ==
    LET p == Expand(pattern)
        t == Expand(text)
    IN  \E i \in 0..(Len(t) - Len(p)) :
            \A j \in 1..Len(p) : p[j] = "." \/ ToLower(p[j]) = ToLower(t[i + j])

\* UTF-16 code units, the order MongoDB sorts strings by
CharCode(c) ==
    CASE c = " " -> 32 [] c = "-" -> 45 [] c = "." -> 46
      [] c = "0" -> 48 [] c = "1" -> 49 [] c = "2" -> 50 [] c = "3" -> 51 [] c = "4" -> 52
      [] c = "5" -> 53 [] c = "6" -> 54 [] c = "7" -> 55 [] c = "8" -> 56 [] c = "9" -> 57
      [] c = "@" -> 64 [] c = "A" -> 65 [] c = "B" -> 66 [] c = "T" -> 84 [] c = "_" -> 95
      [] c = "a" -> 97 [] c = "b" -> 98 [] c = "c" -> 99 [] c = "d" -> 100
      [] c = "e" -> 101 [] c = "f" -> 102 [] c = "t" -> 116 [] c = "u" -> 117

\* s sorts before or with t
StrLeq(s, t) ==
    LET a == Expand(s)
        b == Expand(t)
    IN  \/ \E i \in 1..Len(b) :
              /\ i <= Len(a) => CharCode(a[i]) < CharCode(b[i])
              /\ \A j \in 1..(i - 1) : j <= Len(a) /\ a[j] = b[j]
              /\ i <= Len(a) \/ Len(a) = i - 1
        \/ a = b

\* the orders in which a query may return the set under the given sort
Sorted(set, Leq(_, _)) ==
    {q \in [1..Cardinality(set) -> set] :
        /\ \A i, j \in 1..Cardinality(set) : i < j => q[i] # q[j] /\ Leq(q[i], q[j])}

(***************************************************************************)
(* JavaScript values handed to the validators: a string, undefined, or a   *)
(* (non-zero) number.                                                      *)
(***************************************************************************)
JsString(s) == [t |-> "string", s |-> s]
JsUndefined == [t |-> "undefined", s |-> <<>>]
JsNumber == [t |-> "number", s |-> <<>>]

\* !v is false
Truthy(v) == v.t = "number" \/ (v.t = "string" /\ v.s # <<>>)

StatusUndefined == "<undefined>"

(***************************************************************************)
(* middleware/validation.ts                                                *)
(***************************************************************************)
Valid == [isValid |-> TRUE, error |-> ""]
Invalid(msg) == [isValid |-> FALSE, error |-> msg]

\* /^[a-zA-Z0-9_-]+$/
UsernameRegex(s) == s # <<>> /\ Chars(s) \subseteq (Letters \cup Digits \cup {"_", "-"})

\* the characters "." does not match
LineTerminators == {"\n"}

\* /(?=.*[a-zA-Z])(?=.*\d)/: from some position, a letter and a digit are both
\* reached by ".*", which stops at a line terminator
PasswordRegex(s) ==
    \E i, j \in 1..Len(s) :
        /\ s[i].c \in Letters
        /\ s[j].c \in Digits
        /\ \A k \in 1..Len(s) :
              ((i <= k /\ k <= j) \/ (j <= k /\ k <= i)) => s[k].c \notin LineTerminators

validateUsername(username) ==
    IF ~Truthy(username) \/ username.t # "string" THEN Invalid("Username is required")
    ELSE LET trimmedUsername == Trim(username.s) IN
         IF StrLen(trimmedUsername) < 3
         THEN Invalid("Username must be at least 3 characters long")
         ELSE IF StrLen(trimmedUsername) > 20
         THEN Invalid("Username must be less than 20 characters")
         ELSE IF ~UsernameRegex(trimmedUsername)
         THEN Invalid("Username can only contain letters, numbers, underscores, and hyphens")
         ELSE Valid

validatePassword(password) ==
    IF ~Truthy(password) \/ password.t # "string" THEN Invalid("Password is required")
    ELSE IF StrLen(password.s) < 6
    THEN Invalid("Password must be at least 6 characters long")
    ELSE IF StrLen(password.s) > 100
    THEN Invalid("Password must be less than 100 characters")
    ELSE IF ~PasswordRegex(password.s)
    THEN Invalid("Password must contain at least one letter and one number")
    ELSE Valid

\* variant: the limit as the error message words it ("less than 100 characters")
validateTicketTitleBelow100(title) ==
    IF ~Truthy(title) \/ title.t # "string" THEN Invalid("Title is required")
    ELSE LET trimmedTitle == Trim(title.s) IN
         IF StrLen(trimmedTitle) < 3
         THEN Invalid("Title must be at least 3 characters long")
         ELSE IF StrLen(trimmedTitle) >= 100
         THEN Invalid("Title must be less than 100 characters")
         ELSE Valid

validateTicketTitle(title) ==
    IF ~Truthy(title) \/ title.t # "string" THEN Invalid("Title is required")
    ELSE LET trimmedTitle == Trim(title.s) IN
         IF StrLen(trimmedTitle) < 3
         THEN Invalid("Title must be at least 3 characters long")
         ELSE IF StrLen(trimmedTitle) > 100
         THEN Invalid("Title must be less than 100 characters")
         ELSE Valid

validateTicketDescription(description) ==
    IF Truthy(description) /\ description.t = "string" /\ StrLen(description.s) > 1000
    THEN Invalid("Description must be less than 1000 characters")
    ELSE Valid

validateComment(content) ==
    IF ~Truthy(content) \/ content.t # "string" THEN Invalid("Comment content is required")
    ELSE LET trimmedContent == Trim(content.s) IN
         IF StrLen(trimmedContent) = 0
         THEN Invalid("Comment cannot be empty")
         ELSE IF StrLen(trimmedContent) > 500
         THEN Invalid("Comment must be less than 500 characters")
         ELSE Valid

validStatuses == {"OPEN", "IN_PROGRESS", "CLOSED"}

\* status is a string or StatusUndefined; the falsy ones are "" and StatusUndefined
StatusTruthy(status) == status \notin {"", StatusUndefined}

\* variant: any status passes
validateTicketStatusUnchecked(status) == Valid

validateTicketStatus(status) ==
    IF StatusTruthy(status) /\ status \notin validStatuses
    THEN Invalid("Status must be OPEN, IN_PROGRESS, or CLOSED")
    ELSE Valid

(***************************************************************************)
(* frontend/src/utils/validation.ts                                        *)
(***************************************************************************)
clientValidateUsername(username) ==
    IF Trim(username.s) = <<>> THEN Invalid("Username is required")
    ELSE IF StrLen(username.s) < 3
    THEN Invalid("Username must be at least 3 characters long")
    ELSE IF StrLen(username.s) > 20
    THEN Invalid("Username must be less than 20 characters")
    ELSE IF ~UsernameRegex(username.s)
    THEN Invalid("Username can only contain letters, numbers, underscores, and hyphens")
    ELSE Valid

clientValidateTicketTitle(title) ==
    IF Trim(title.s) = <<>> THEN Invalid("Title is required")
    ELSE IF StrLen(title.s) < 3
    THEN Invalid("Title must be at least 3 characters long")
    ELSE IF StrLen(title.s) > 100
    THEN Invalid("Title must be less than 100 characters")
    ELSE Valid

clientValidateComment(content) ==
    IF Trim(content.s) = <<>> THEN Invalid("Comment cannot be empty")
    ELSE IF StrLen(content.s) > 500
    THEN Invalid("Comment must be less than 500 characters")
    ELSE Valid

validateAuthRequest(body) ==
    LET usernameValidation == validateUsername(body.username)
        passwordValidation == validatePassword(body.password)
    IN  IF ~usernameValidation.isValid THEN usernameValidation
        ELSE IF ~passwordValidation.isValid THEN passwordValidation
        ELSE Valid

\* variant: the status is not validated
validateTicketRequestWithoutStatus(body) ==
    LET titleValidation == validateTicketTitle(body.title)
        descriptionValidation == validateTicketDescription(body.description)
    IN  IF ~titleValidation.isValid THEN titleValidation
        ELSE IF ~descriptionValidation.isValid THEN descriptionValidation
        ELSE Valid

validateTicketRequest(body) ==
    LET titleValidation == validateTicketTitle(body.title)
        descriptionValidation == validateTicketDescription(body.description)
        statusValidation == validateTicketStatus(body.status)
    IN  IF ~titleValidation.isValid THEN titleValidation
        ELSE IF ~descriptionValidation.isValid THEN descriptionValidation
        ELSE IF ~statusValidation.isValid THEN statusValidation
        ELSE Valid

validateCommentRequest(body) == validateComment(body.content)

(***************************************************************************)
(* The validators called on their own, as the unit tests call them: each   *)
(* test makes one call.                                                    *)
(***************************************************************************)
TextChars == {" ", "a", "7", "_", "@"}

UsernameInputs ==
    {JsUndefined, JsNumber} \cup {JsString(s) : s \in Strings(TextChars, {1, 2, 3, 17, 20})}

TitleInputs ==
    {JsUndefined, JsNumber} \cup {JsString(s) : s \in Strings(TextChars, {1, 2, 3, 98, 100})}

PasswordChars == {"a", "7", "@", "\n"}

PasswordInputs ==
    {JsUndefined, JsNumber} \cup {JsString(s) : s \in Strings(PasswordChars, {1, 5, 94, 100})}

StatusInputs == validStatuses \cup {"", StatusUndefined, "INVALID_STATUS", "open"}

NoCall == [fn |-> "none", arg |-> JsUndefined, out |-> Valid]

CallValidateUsername ==
    /\ call = NoCall
    /\ \E u \in UsernameInputs :
          call' = [fn |-> "validateUsername", arg |-> u, out |-> validateUsername(u)]
    /\ UNCHANGED <<appVars, mw, clientVars, inflight>>

CallClientValidateUsername ==
    /\ call = NoCall
    /\ \E u \in {v \in UsernameInputs : v.t = "string"} :
          call' = [fn |-> "clientValidateUsername", arg |-> u,
                   out |-> clientValidateUsername(u)]
    /\ UNCHANGED <<appVars, mw, clientVars, inflight>>

CallValidatePassword ==
    /\ call = NoCall
    /\ \E p \in PasswordInputs :
          call' = [fn |-> "validatePassword", arg |-> p, out |-> validatePassword(p)]
    /\ UNCHANGED <<appVars, mw, clientVars, inflight>>

CallValidateTicketTitle ==
    /\ call = NoCall
    /\ \E t \in TitleInputs :
          call' = [fn |-> "validateTicketTitle", arg |-> t, out |-> validateTicketTitle(t)]
    /\ UNCHANGED <<appVars, mw, clientVars, inflight>>

CallClientValidateTicketTitle ==
    /\ call = NoCall
    /\ \E t \in {v \in TitleInputs : v.t = "string"} :
          call' = [fn |-> "clientValidateTicketTitle", arg |-> t,
                   out |-> clientValidateTicketTitle(t)]
    /\ UNCHANGED <<appVars, mw, clientVars, inflight>>

CommentInputs ==
    {JsUndefined, JsNumber} \cup {JsString(s) : s \in Strings({" ", "a"}, {1, 2, 498, 500})}

CallValidateComment ==
    /\ call = NoCall
    /\ \E content \in CommentInputs :
          call' = [fn |-> "validateComment", arg |-> content, out |-> validateComment(content)]
    /\ UNCHANGED <<appVars, mw, clientVars, inflight>>

CallClientValidateComment ==
    /\ call = NoCall
    /\ \E content \in {v \in CommentInputs : v.t = "string"} :
          call' = [fn |-> "clientValidateComment", arg |-> content,
                   out |-> clientValidateComment(content)]
    /\ UNCHANGED <<appVars, mw, clientVars, inflight>>

CallValidateTicketStatus ==
    /\ call = NoCall
    /\ \E st \in StatusInputs :
          call' = [fn |-> "validateTicketStatus", arg |-> st,
                   out |-> validateTicketStatus(st)]
    /\ UNCHANGED <<appVars, mw, clientVars, inflight>>

(***************************************************************************)
(* JSON web tokens and the Authorization header.  A header is a sequence   *)
(* of atoms: a space, a piece of text without spaces, or the compact       *)
(* serialization of a token [userId, username, secret, iat, exp]; exp is {}  *)
(* for a token without expiry and {hour} otherwise.                        *)
(***************************************************************************)
JWT_SECRET == "JWT_SECRET"

ExpiresInHours == 24

SP == [k |-> "sp", text |-> " ", jwt |-> {}]
Text(w) == [k |-> "text", text |-> w, jwt |-> {}]
Jwt(tok) == [k |-> "jwt", text |-> "", jwt |-> {tok}]

NoHeader == [present |-> FALSE, s |-> <<>>]
Header(s) == [present |-> TRUE, s |-> s]
Bearer(tok) == Header(<<Text("Bearer"), SP, Jwt(tok)>>)

\* String.prototype.split(' ')
RECURSIVE Split(_)
Split(s) ==
    IF \A i \in 1..Len(s) : s[i] # SP THEN <<s>>
    ELSE LET i == CHOOSE j \in 1..Len(s) : s[j] = SP /\ \A m \in 1..(j - 1) : s[m] # SP
         IN  <<SubSeq(s, 1, i - 1)>> \o Split(SubSeq(s, i + 1, Len(s)))

\* variant: jwt.sign without expiresIn
jwtSignWithoutExpiry(userId, username, secret, clock) ==
    [userId |-> userId, username |-> username, secret |-> secret, iat |-> clock, exp |-> {}]

\* jwt.sign(payload, secret, {expiresIn: '24h'}) at the given hour
jwtSign(userId, username, secret, clock) ==
    [userId |-> userId, username |-> username, secret |-> secret,
     iat |-> clock, exp |-> {clock + ExpiresInHours}]

\* variant: jwt.verify called with ignoreExpiration
jwtVerifyIgnoreExpiration(token, secret, clock) ==
    IF token = <<>> THEN {}
    ELSE LET word == token[1] IN
         IF Len(word) = 1 /\ word[1].k = "jwt"
         THEN {t \in word[1].jwt : t.secret = secret}
         ELSE {}

\* jwt.verify(token, secret): the decoded payloads, {} when it throws.  token is
\* <<>> for undefined and <<word>> for a string.
jwtVerify(token, secret, clock) ==
    IF token = <<>> THEN {}
    ELSE LET word == token[1] IN
         IF Len(word) = 1 /\ word[1].k = "jwt"
         THEN {t \in word[1].jwt : t.secret = secret /\ \A e \in t.exp : clock < e}
         ELSE {}

(***************************************************************************)
(* middleware/auth.ts.  The result: status sent (0: none), whether next()  *)
(* was called, and the userId and username attached ({}: left undefined).  *)
(***************************************************************************)
\* variant: the earlier revision of the middleware, which reads decoded.id and
\* attaches no username
authenticateLegacy(authHeader, clock) ==
    IF ~authHeader.present \/ authHeader.s = <<>>
    THEN [status |-> 401, next |-> FALSE, userId |-> {}, username |-> {}]
    ELSE LET parts == Split(authHeader.s)
             token == IF Len(parts) >= 2 THEN <<parts[2]>> ELSE <<>>
             decoded == jwtVerify(token, JWT_SECRET, clock)
         IN  IF decoded = {}
             THEN [status |-> 403, next |-> FALSE, userId |-> {}, username |-> {}]
             ELSE [status |-> 0, next |-> TRUE, userId |-> {}, username |-> {}]

authenticate(authHeader, clock) ==
    IF ~authHeader.present \/ authHeader.s = <<>>
    THEN [status |-> 401, next |-> FALSE, userId |-> {}, username |-> {}]
    ELSE LET parts == Split(authHeader.s)
             token == IF Len(parts) >= 2 THEN <<parts[2]>> ELSE <<>>
             decoded == jwtVerify(token, JWT_SECRET, clock)
         IN  IF decoded = {}
             THEN [status |-> 403, next |-> FALSE, userId |-> {}, username |-> {}]
             ELSE [status |-> 0, next |-> TRUE,
                   userId |-> {t.userId : t \in decoded},
                   username |-> {t.username : t \in decoded}]

(***************************************************************************)
(* authenticate called on its own with a mock request, as the unit tests   *)
(* call it, on any header of at most MaxHeaderAtoms atoms.                 *)
(***************************************************************************)
MaxHeaderAtoms == 3

Name(c) == <<Run(c, 3)>>

UnitTokens ==
    {[userId |-> u, username |-> Name(IF u = 1 THEN "a" ELSE "b"), secret |-> k,
      iat |-> 0, exp |-> e] :
        u \in {1, 2}, k \in {JWT_SECRET, "wrong-secret"},
        e \in {{}, {ExpiresInHours}}}

UnitAtoms == {SP, Text("Bearer"), Text("Basic"), Text("invalid-token")}
                \cup {Jwt(t) : t \in UnitTokens}

UnitHeaders ==
    {NoHeader} \cup {Header(s) : s \in UNION {[1..k -> UnitAtoms] : k \in 0..MaxHeaderAtoms}}

UnitClocks == {0, ExpiresInHours - 1, ExpiresInHours}

NoMw == [authorization |-> NoHeader, clock |-> 0, called |-> FALSE,
         userId |-> {}, username |-> {}, sent |-> <<>>, nextCalls |-> 0]

CallAuthenticate ==
    /\ ~mw.called
    /\ \E h \in UnitHeaders, c \in UnitClocks :
          LET r == authenticate(h, c) IN
          mw' = [authorization |-> h, clock |-> c, called |-> TRUE,
                 userId |-> r.userId, username |-> r.username,
                 sent |-> IF r.status = 0 THEN <<>> ELSE <<r.status>>,
                 nextCalls |-> IF r.next THEN 1 ELSE 0]
    /\ UNCHANGED <<appVars, call, clientVars, inflight>>

(***************************************************************************)
(* The HTTP application.  Every request is handled in one step: the        *)
(* middleware chain of its router, then the route handler.                 *)
(***************************************************************************)
MaxTokens == 2      \* tokens the clients keep to present later

\* variant: the promise of bcrypt.compare taken for its result
bcryptCompareNotAwaited(password, hash) == TRUE

\* bcrypt.hash(password, 12) and bcrypt.compare(password, hash)
bcryptHash(password) == [bcrypt |-> password]
bcryptCompare(password, hash) == hash = bcryptHash(password)

NoBody ==
    [username |-> JsUndefined, password |-> JsUndefined, title |-> JsUndefined,
     description |-> JsUndefined, status |-> StatusUndefined, content |-> JsUndefined,
     ticketId |-> 0]

NoQuery == [search |-> JsUndefined, status |-> StatusUndefined,
            sortBy |-> "createdAt", sortOrder |-> "desc"]

\* userId and username are the fields authenticate attaches ({}: undefined)
Request(op, h, body, id, query, dbFails, auth) ==
    [op |-> op, authorization |-> h, body |-> body, id |-> id, query |-> query,
     dbFails |-> dbFails, userId |-> auth.userId, username |-> auth.username]

\* res.status(status).json({message}) / res.status(status).json(body) / res.sendStatus(status)
Response(status, message, body) == [status |-> status, message |-> message, body |-> body]

NoAuth == [userId |-> {}, username |-> {}]

NoRequest == Request("none", NoHeader, NoBody, 0, NoQuery, FALSE, NoAuth)
NoResponse == Response(0, "", <<>>)

\* no request is being served
Idle == req = NoRequest

\* Model.findOne(filter): the first document matching, in insertion order
FindOne(coll, Match(_)) ==
    LET found == {d \in coll : Match(d)}
    IN  IF found = {} THEN {} ELSE {CHOOSE d \in found : \A e \in found : d.id <= e.id}

TheOne(set) == CHOOSE x \in set : TRUE

PublicUser(user) == [id |-> user.id, username |-> user.username]

\* description?.trim()
TrimOptional(v) == IF v.t = "string" THEN JsString(Trim(v.s)) ELSE v

(***************************************************************************)
(* The requests the clients send.                                          *)
(***************************************************************************)
Password1 == <<Run("a", 5), Run("7", 1)>>
Password2 == <<Run("b", 5), Run("7", 1)>>

Body(fields) == [k \in DOMAIN NoBody |-> IF k \in DOMAIN fields THEN fields[k] ELSE NoBody[k]]

AuthBody(username, password) ==
    Body([username |-> JsString(username), password |-> JsString(password)])

AuthBodies ==
    {AuthBody(Name("a"), Password1),
     AuthBody(<<Run(" ", 1), Run("a", 3)>>, Password1),
     AuthBody(Name("b"), Password1),
     AuthBody(Name("a"), Password2),
     AuthBody(<<Run("a", 2)>>, Password1),
     AuthBody(Name("a"), <<Run("a", 5)>>)}

\* the second password is only ever offered at login
RegisterBodies == AuthBodies \ {AuthBody(Name("a"), Password2)}

TicketBody == Body([title |-> JsString(<<Run("t", 3), Run(" ", 1)>>)])

InvalidTicketBody == Body([title |-> JsString(<<Run("u", 2)>>), status |-> "CLOSED"])

TicketBodies ==
    {TicketBody,
     InvalidTicketBody,
     Body([title |-> JsString(<<Run("T", 2), Run("b", 1)>>),
           description |-> JsString(<<Run(" ", 1), Run("d", 1)>>), status |-> "CLOSED"]),
     Body([title |-> JsString(Name("t")), status |-> "DONE"]),
     Body([status |-> "CLOSED"]),
     Body([title |-> JsString(Name("t")), description |-> JsString(<<>>), status |-> ""])}

CommentBody == Body([content |-> JsString(<<Run("c", 2), Run(" ", 1)>>), ticketId |-> 1])

InvalidCommentBody == Body([content |-> JsString(<<Run(" ", 2)>>), ticketId |-> 1])

CommentBodies ==
    {[CommentBody EXCEPT !.ticketId = t] : t \in 0..MaxIds} \cup {InvalidCommentBody}

\* a token signed with another secret, carrying the identity of the first stored user
Forged ==
    {[userId |-> u.id, username |-> u.username, secret |-> "wrong-secret",
      iat |-> now, exp |-> {}] :
        u \in FindOne(users, LAMBDA u : TRUE)}

\* the requests sent to a route: every body and id with each token a login returned,
\* a failing persistence call with each such token, and the typical bodies without
\* a token or with a forged one
Calls(bodies, ids, typical) ==
    {[h |-> Bearer(t), body |-> b, id |-> i, dbFails |-> FALSE] :
        t \in issued, b \in bodies, i \in ids}
    \cup {[h |-> Bearer(t), body |-> b, id |-> 1, dbFails |-> TRUE] :
        t \in issued, b \in typical}
    \cup {[h |-> h, body |-> b, id |-> 1, dbFails |-> FALSE] :
        h \in {NoHeader} \cup {Bearer(t) : t \in Forged}, b \in typical}

(***************************************************************************)
(* routes/auth.ts                                                          *)
(***************************************************************************)
\* variant: the username is looked up and stored as sent
untrimmedUsername(body) == body.username.s

\* const trimmedUsername = username.trim()
trimmedUsername(body) == Trim(body.username.s)

Register ==
    /\ Idle
    /\ \E body \in RegisterBodies, dbFails \in BOOLEAN :
           LET validation == validateAuthRequest(body)
               existingUser == FindOne(users, LAMBDA u : u.username = trimmedUsername(body))
               user == [id |-> nextId + 1, username |-> trimmedUsername(body),
                        password |-> bcryptHash(body.password.s)]
           IN  /\ req' = Request("register", NoHeader, body, 0, NoQuery, dbFails, NoAuth)
               /\ IF ~validation.isValid
                  THEN /\ ran' = <<"validateAuthRequest">>
                       /\ res' = Response(400, validation.error, <<>>)
                       /\ UNCHANGED <<users, nextId>>
                  ELSE IF dbFails
                  THEN /\ ran' = <<"validateAuthRequest", "register">>
                       /\ res' = Response(500, "Server error", <<>>)
                       /\ UNCHANGED <<users, nextId>>
                  ELSE IF existingUser # {}
                  THEN /\ ran' = <<"validateAuthRequest", "register">>
                       /\ res' = Response(400, "Username already exists", <<>>)
                       /\ UNCHANGED <<users, nextId>>
                  ELSE /\ nextId < MaxIds
                       /\ ran' = <<"validateAuthRequest", "register">>
                       /\ users' = users \cup {user}
                       /\ nextId' = nextId + 1
                       /\ res' = Response(201, "", <<PublicUser(user)>>)
               /\ UNCHANGED <<tickets, comments, now, issued, mw, call, clientVars, inflight>>

Login ==
    /\ Idle
    /\ \E body \in AuthBodies, dbFails \in BOOLEAN :
           LET validation == validateAuthRequest(body)
               user == FindOne(users, LAMBDA u : u.username = trimmedUsername(body))
               token == jwtSign(TheOne(user).id, TheOne(user).username, JWT_SECRET, now)
           IN  /\ req' = Request("login", NoHeader, body, 0, NoQuery, dbFails, NoAuth)
               /\ IF ~validation.isValid
                  THEN /\ ran' = <<"validateAuthRequest">>
                       /\ res' = Response(400, validation.error, <<>>)
                       /\ UNCHANGED issued
                  ELSE IF dbFails
                  THEN /\ ran' = <<"validateAuthRequest", "login">>
                       /\ res' = Response(500, "Server error", <<>>)
                       /\ UNCHANGED issued
                  ELSE IF user = {} \/ ~bcryptCompare(body.password.s, TheOne(user).password)
                  THEN /\ ran' = <<"validateAuthRequest", "login">>
                       /\ res' = Response(401, "Invalid username or password", <<>>)
                       /\ UNCHANGED issued
                  ELSE /\ token \in issued \/ Cardinality(issued) < MaxTokens
                       /\ ran' = <<"validateAuthRequest", "login">>
                       /\ res' = Response(200, "",
                                          <<[token |-> token, user |-> PublicUser(TheOne(user))]>>)
                       /\ issued' = issued \cup {token}
               /\ UNCHANGED <<users, tickets, comments, nextId, now, mw, call, clientVars, inflight>>

\* time passes
Tick ==
    /\ Idle
    /\ now + TickHours <= MaxClock
    /\ now' = now + TickHours
    /\ UNCHANGED <<users, tickets, comments, nextId, issued, req, res, ran, mw, call, clientVars, inflight>>

\* the exchange is over: the server awaits the next request
Finish ==
    /\ ~Idle
    /\ req' = NoRequest
    /\ res' = NoResponse
    /\ ran' = <<>>
    /\ UNCHANGED <<users, tickets, comments, nextId, now, issued, mw, call, clientVars, inflight>>

(***************************************************************************)
(* routes/tickets.ts                                                       *)
(***************************************************************************)
\* variant: authenticate sends the status and goes on to next()
RefusedWithoutReturn(auth) ==
    /\ ran' = <<"authenticate", "next">>
    /\ res' = Response(auth.status, "", <<>>)
    /\ UNCHANGED <<users, tickets, comments, nextId>>

\* the router's first middleware refused the request
Refused(auth) ==
    /\ ran' = <<"authenticate">>
    /\ res' = Response(auth.status, "", <<>>)
    /\ UNCHANGED <<users, tickets, comments, nextId>>

\* a handler's catch block
ServerError(stages) ==
    /\ ran' = stages
    /\ res' = Response(500, "Server error", <<>>)
    /\ UNCHANGED <<users, tickets, comments, nextId>>

\* variant: the title is stored as sent
NewTicketUntrimmed(body, userId, id) ==
    [id |-> id,
     title |-> body.title.s,
     description |-> TrimOptional(body.description),
     status |-> IF StatusTruthy(body.status) THEN body.status ELSE "OPEN",
     createdBy |-> userId,
     createdAt |-> id]

\* the document handed to Ticket.create
NewTicket(body, userId, id) ==
    [id |-> id,
     title |-> Trim(body.title.s),
     description |-> TrimOptional(body.description),
     status |-> IF StatusTruthy(body.status) THEN body.status ELSE "OPEN",
     createdBy |-> userId,
     createdAt |-> id]

\* ticketSchema: the enum of status, which Ticket.create validates and
\* Ticket.findOneAndUpdate does not
schemaAccepts(ticket) == ticket.status \in {"OPEN", "IN_PROGRESS", "CLOSED"}

CreateTicket ==
    /\ Idle
    /\ \E sent \in Calls(TicketBodies, {0}, {TicketBody, InvalidTicketBody}) :
           LET h == sent.h
               dbFails == sent.dbFails
               body == sent.body
               auth == authenticate(h, now)
               validation == validateTicketRequest(body)
               stages == <<"authenticate", "validateTicketRequest", "createTicket">>
               ticket == NewTicket(body, TheOne(auth.userId), nextId + 1)
           IN  /\ req' = Request("createTicket", h, body, 0, NoQuery, dbFails, auth)
               /\ IF ~auth.next THEN Refused(auth)
                  ELSE IF ~validation.isValid
                  THEN /\ ran' = <<"authenticate", "validateTicketRequest">>
                       /\ res' = Response(400, validation.error, <<>>)
                       /\ UNCHANGED <<users, tickets, comments, nextId>>
                  ELSE IF dbFails \/ ~schemaAccepts(ticket) THEN ServerError(stages)
                  ELSE /\ nextId < MaxIds
                       /\ ran' = stages
                       /\ tickets' = tickets \cup {ticket}
                       /\ nextId' = nextId + 1
                       /\ res' = Response(201, "", <<ticket>>)
                       /\ UNCHANGED <<users, comments>>
               /\ UNCHANGED <<now, issued, mw, call, clientVars, inflight>>

GetTicket ==
    /\ Idle
    /\ \E sent \in Calls({NoBody}, 1..MaxIds, {NoBody}) :
           LET h == sent.h
               dbFails == sent.dbFails
               id == sent.id
               auth == authenticate(h, now)
               stages == <<"authenticate", "getTicket">>
               ticket == FindOne(tickets, LAMBDA t : t.id = id)
           IN  /\ req' = Request("getTicket", h, NoBody, id, NoQuery, dbFails, auth)
               /\ IF ~auth.next THEN Refused(auth)
                  ELSE IF dbFails THEN ServerError(stages)
                  ELSE /\ ran' = stages
                       /\ res' = IF ticket = {} THEN Response(404, "Ticket not found", <<>>)
                                 ELSE Response(200, "", <<TheOne(ticket)>>)
                       /\ UNCHANGED <<users, tickets, comments, nextId>>
               /\ UNCHANGED <<now, issued, mw, call, clientVars, inflight>>

\* variant: the document is replaced by the fields of the body
replacedTicket(old, body) ==
    [old EXCEPT
        !.title = Trim(body.title.s),
        !.description = TrimOptional(body.description),
        !.status = IF StatusTruthy(body.status) THEN body.status ELSE "OPEN"]

\* updateData applied to the stored document: only the fields the body supplies
updatedTicket(old, body) ==
    [old EXCEPT
        !.title = IF Truthy(body.title) THEN Trim(body.title.s) ELSE @,
        !.description = IF body.description.t # "undefined"
                        THEN TrimOptional(body.description) ELSE @,
        !.status = IF StatusTruthy(body.status) THEN body.status ELSE @]

\* variant: the filter also names the requester as creator
updateFilterOfCreator(t, id, userId) == t.id = id /\ t.createdBy = userId

\* the filter of findOneAndUpdate: { _id: req.params.id }
updateFilter(t, id, userId) == t.id = id

UpdateTicket ==
    /\ Idle
    /\ \E sent \in Calls(TicketBodies, 1..MaxIds, {TicketBody, InvalidTicketBody}) :
           LET h == sent.h
               dbFails == sent.dbFails
               body == sent.body
               id == sent.id
               auth == authenticate(h, now)
               validation == validateTicketRequest(body)
               stages == <<"authenticate", "validateTicketRequest", "updateTicket">>
               found == FindOne(tickets,
                                LAMBDA t : updateFilter(t, id, TheOne(auth.userId)))
               old == TheOne(found)
               ticket == updatedTicket(old, body)
           IN  /\ req' = Request("updateTicket", h, body, id, NoQuery, dbFails, auth)
               /\ IF ~auth.next THEN Refused(auth)
                  ELSE IF ~validation.isValid
                  THEN /\ ran' = <<"authenticate", "validateTicketRequest">>
                       /\ res' = Response(400, validation.error, <<>>)
                       /\ UNCHANGED <<users, tickets, comments, nextId>>
                  ELSE IF dbFails THEN ServerError(stages)
                  ELSE IF found = {}
                  THEN /\ ran' = stages
                       /\ res' = Response(404, "Ticket not found", <<>>)
                       /\ UNCHANGED <<users, tickets, comments, nextId>>
                  ELSE /\ ran' = stages
                       /\ tickets' = (tickets \ {old}) \cup {ticket}
                       /\ res' = Response(200, "", <<ticket>>)
                       /\ UNCHANGED <<users, comments, nextId>>
               /\ UNCHANGED <<now, issued, mw, call, clientVars, inflight>>

\* variant: the ticket is looked up by its id alone
ticketById(t, id, userId) == t.id = id

\* the filter {_id: req.params.id, createdBy: req.userId}
ticketOfUser(t, id, userId) == t.id = id /\ t.createdBy = userId

\* the handler has no try/catch: a rejected persistence call leaves the request
\* without a response
DeleteTicket ==
    /\ Idle
    /\ \E sent \in Calls({NoBody}, 1..MaxIds, {NoBody}) :
           LET h == sent.h
               dbFails == sent.dbFails
               id == sent.id
               stages == <<"authenticate", "deleteTicket">>
               auth == authenticate(h, now)
               found == FindOne(tickets,
                                LAMBDA t : ticketOfUser(t, id, TheOne(auth.userId)))
           IN  /\ req' = Request("deleteTicket", h, NoBody, id, NoQuery, dbFails, auth)
               /\ IF ~auth.next THEN Refused(auth)
                  ELSE IF dbFails
                  THEN /\ ran' = stages
                       /\ res' = NoResponse
                       /\ UNCHANGED <<users, tickets, comments, nextId>>
                  ELSE IF found = {}
                  THEN /\ ran' = stages
                       /\ res' = Response(404, "Ticket not found", <<>>)
                       /\ UNCHANGED <<users, tickets, comments, nextId>>
                  ELSE /\ ran' = stages
                       /\ tickets' = tickets \ found
                       /\ res' = Response(200, "Ticket deleted", <<>>)
                       /\ UNCHANGED <<users, comments, nextId>>
               /\ UNCHANGED <<now, issued, mw, call, clientVars, inflight>>

\* /^[0-9a-fA-F]{24}$/
HexChars == Digits \cup {"a", "b", "c", "d", "e", "f", "A", "B"}
IsObjectIdString(s) == StrLen(s) = 24 /\ Chars(s) \subseteq HexChars

\* the hexadecimal form of the id-th ObjectId the store generated
ObjectIdString(id) ==
    <<Run("0", 23), Run(CHOOSE c \in Digits : CharCode(c) = 48 + id, 1)>>

Query(fields) == [k \in DOMAIN NoQuery |-> IF k \in DOMAIN fields THEN fields[k] ELSE NoQuery[k]]

Queries ==
    {NoQuery,
     Query([search |-> JsString(<<Run("T", 2)>>)]),
     Query([search |-> JsString(<<Run(".", 1)>>), sortBy |-> "title", sortOrder |-> "asc"]),
     Query([search |-> JsString(ObjectIdString(2)), sortOrder |-> "asc"]),
     Query([status |-> "CLOSED", sortBy |-> "title"]),
     Query([search |-> JsString(<<Run("t", 1), Run("b", 1)>>), status |-> "CLOSED"])}

ListTickets ==
    /\ Idle
    /\ \E sent \in Calls(Queries, {0}, {NoQuery}) :
           LET h == sent.h
               dbFails == sent.dbFails
               query == sent.body
               auth == authenticate(h, now)
               stages == <<"authenticate", "listTickets">>
               Filter(t) ==
                   /\ StatusTruthy(query.status) => t.status = query.status
                   /\ Truthy(query.search) =>
                         \/ RegexTestIgnoreCase(query.search.s, t.title)
                         \/ /\ IsObjectIdString(query.search.s)
                            /\ ObjectIdString(t.id) = query.search.s
               Key(a, b) ==
                   IF query.sortBy = "title" THEN StrLeq(a.title, b.title)
                   ELSE a.createdAt <= b.createdAt
               Order(a, b) == IF query.sortOrder = "asc" THEN Key(a, b) ELSE Key(b, a)
           IN  /\ req' = Request("listTickets", h, NoBody, 0, query, dbFails, auth)
               /\ IF ~auth.next THEN Refused(auth)
                  ELSE IF dbFails THEN ServerError(stages)
                  ELSE /\ ran' = stages
                       /\ \E found \in Sorted({t \in tickets : Filter(t)}, Order) :
                             res' = Response(200, "", found)
                       /\ UNCHANGED <<users, tickets, comments, nextId>>
               /\ UNCHANGED <<now, issued, mw, call, clientVars, inflight>>

(***************************************************************************)
(* routes/comments.ts                                                      *)
(***************************************************************************)
\* variant: newest first
createdAtDescending(a, b) == b.createdAt <= a.createdAt

\* sort({createdAt: 1})
createdAtAscending(a, b) == a.createdAt <= b.createdAt

ListComments ==
    /\ Idle
    /\ \E sent \in Calls({NoBody}, 1..MaxIds, {NoBody}) :
           LET h == sent.h
               dbFails == sent.dbFails
               ticketId == sent.id
               auth == authenticate(h, now)
               stages == <<"authenticate", "listComments">>
               ticket == FindOne(tickets, LAMBDA t : t.id = ticketId)
               Order(a, b) == createdAtAscending(a, b)
           IN  /\ req' = Request("listComments", h, NoBody, ticketId, NoQuery, dbFails, auth)
               /\ IF ~auth.next THEN Refused(auth)
                  ELSE IF dbFails THEN ServerError(stages)
                  ELSE IF ticket = {}
                  THEN /\ ran' = stages
                       /\ res' = Response(404, "Ticket not found", <<>>)
                       /\ UNCHANGED <<users, tickets, comments, nextId>>
                  ELSE /\ ran' = stages
                       /\ \E found \in Sorted({c \in comments : c.ticketId = ticketId}, Order) :
                             res' = Response(200, "", found)
                       /\ UNCHANGED <<users, tickets, comments, nextId>>
               /\ UNCHANGED <<now, issued, mw, call, clientVars, inflight>>

\* variant: the content is stored as sent
NewCommentUntrimmed(body, userId, username, id) ==
    [id |-> id,
     content |-> body.content.s,
     ticketId |-> body.ticketId,
     userId |-> userId,
     username |-> username,
     createdAt |-> id]

\* the document handed to Comment.create
NewComment(body, userId, username, id) ==
    [id |-> id,
     content |-> Trim(body.content.s),
     ticketId |-> body.ticketId,
     userId |-> userId,
     username |-> username,
     createdAt |-> id]

\* variant: a user's earlier comment on the ticket is overwritten by the new one
replaceOrInsert(coll, doc) ==
    LET earlier == FindOne(coll, LAMBDA c : c.ticketId = doc.ticketId /\ c.userId = doc.userId)
    IN  IF earlier = {} THEN coll \cup {doc}
        ELSE (coll \ earlier) \cup {[doc EXCEPT !.id = TheOne(earlier).id]}

\* Comment.create: the document is added to the collection
insertOne(coll, doc) == coll \cup {doc}

CreateComment ==
    /\ Idle
    /\ \E sent \in Calls(CommentBodies, {0}, {CommentBody, InvalidCommentBody}) :
           LET h == sent.h
               dbFails == sent.dbFails
               body == sent.body
               auth == authenticate(h, now)
               validation == validateCommentRequest(body)
               stages == <<"authenticate", "validateCommentRequest", "createComment">>
               ticket == FindOne(tickets, LAMBDA t : t.id = body.ticketId)
               comment == NewComment(body, TheOne(auth.userId), TheOne(auth.username),
                                     nextId + 1)
           IN  /\ req' = Request("createComment", h, body, 0, NoQuery, dbFails, auth)
               /\ IF ~auth.next THEN Refused(auth)
                  ELSE IF ~validation.isValid
                  THEN /\ ran' = <<"authenticate", "validateCommentRequest">>
                       /\ res' = Response(400, validation.error, <<>>)
                       /\ UNCHANGED <<users, tickets, comments, nextId>>
                  ELSE IF body.ticketId = 0
                  THEN /\ ran' = stages
                       /\ res' = Response(400, "Ticket ID is required", <<>>)
                       /\ UNCHANGED <<users, tickets, comments, nextId>>
                  ELSE IF dbFails THEN ServerError(stages)
                  ELSE IF ticket = {}
                  THEN /\ ran' = stages
                       /\ res' = Response(404, "Ticket not found", <<>>)
                       /\ UNCHANGED <<users, tickets, comments, nextId>>
                  ELSE /\ nextId < MaxIds
                       /\ ran' = stages
                       /\ comments' = insertOne(comments, comment)
                       /\ nextId' = nextId + 1
                       /\ res' = Response(201, "", <<comment>>)
                       /\ UNCHANGED <<users, tickets>>
               /\ UNCHANGED <<now, issued, mw, call, clientVars, inflight>>

\* variant: the comment is looked up on a stored ticket only
commentOfUserOnTicket(c, id, userId) ==
    c.id = id /\ c.userId = userId /\ \E t \in tickets : t.id = c.ticketId

\* variant: the comment is looked up by its id alone
commentById(c, id, userId) == c.id = id

\* the filter {_id: req.params.id, userId: req.userId}
commentOfUser(c, id, userId) == c.id = id /\ c.userId = userId

DeleteComment ==
    /\ Idle
    /\ \E sent \in Calls({NoBody}, 1..MaxIds, {NoBody}) :
           LET h == sent.h
               dbFails == sent.dbFails
               id == sent.id
               auth == authenticate(h, now)
               stages == <<"authenticate", "deleteComment">>
               comment == FindOne(comments,
                                  LAMBDA c : commentOfUser(c, id, TheOne(auth.userId)))
           IN  /\ req' = Request("deleteComment", h, NoBody, id, NoQuery, dbFails, auth)
               /\ IF ~auth.next THEN Refused(auth)
                  ELSE IF dbFails THEN ServerError(stages)
                  ELSE IF comment = {}
                  THEN /\ ran' = stages
                       /\ res' = Response(404, "Comment not found or unauthorized", <<>>)
                       /\ UNCHANGED <<users, tickets, comments, nextId>>
                  ELSE /\ ran' = stages
                       /\ comments' = {c \in comments : c.id # id}
                       /\ res' = Response(200, "Comment deleted", <<>>)
                       /\ UNCHANGED <<users, tickets, nextId>>
               /\ UNCHANGED <<now, issued, mw, call, clientVars, inflight>>

(***************************************************************************)
(* The earlier comments router (router.get, router.post on /:ticketId and  *)
(* router.delete on /:commentId), with authenticate on each route.  Its    *)
(* comments are documents [id, content, ticket, user, createdAt], and it   *)
(* answers errors as {error: text}, kept in the message of the response.   *)
(***************************************************************************)
LegacyContents == {JsString(<<Run("c", 2), Run(" ", 1)>>), JsUndefined}

LegacyBodies == {Body([content |-> c]) : c \in LegacyContents}

LegacyListComments ==
    /\ Idle
    /\ \E sent \in Calls({NoBody}, 1..MaxIds, {NoBody}) :
           LET h == sent.h
               dbFails == sent.dbFails
               ticketId == sent.id
               auth == authenticate(h, now)
               Order(a, b) == a.createdAt <= b.createdAt
           IN  /\ req' = Request("legacyListComments", h, NoBody, ticketId, NoQuery, dbFails,
                                 auth)
               /\ IF ~auth.next THEN Refused(auth)
                  ELSE /\ ran' = <<"authenticate", "legacyListComments">>
                       /\ IF dbFails
                          THEN res' = Response(500, "Failed to fetch comments", <<>>)
                          ELSE \E found \in Sorted({c \in comments : c.ticket = ticketId},
                                                   Order) :
                                  res' = Response(200, "", found)
                       /\ UNCHANGED <<users, tickets, comments, nextId>>
               /\ UNCHANGED <<now, issued, mw, call, clientVars, inflight>>

LegacyCreateComment ==
    /\ Idle
    /\ \E sent \in Calls(LegacyBodies, 1..MaxIds, LegacyBodies) :
           LET h == sent.h
               dbFails == sent.dbFails
               body == sent.body
               ticketId == sent.id
               auth == authenticate(h, now)
               stages == <<"authenticate", "legacyCreateComment">>
               ticket == FindOne(tickets, LAMBDA t : t.id = ticketId)
               comment == [id |-> nextId + 1,
                           ticket |-> ticketId,
                           user |-> TheOne(auth.userId),
                           content |-> body.content.s,
                           createdAt |-> nextId + 1]
           IN  /\ req' = Request("legacyCreateComment", h, body, ticketId, NoQuery, dbFails,
                                 auth)
               /\ IF ~auth.next THEN Refused(auth)
                  ELSE IF ~Truthy(body.content)
                  THEN /\ ran' = stages
                       /\ res' = Response(400, "Content required", <<>>)
                       /\ UNCHANGED <<users, tickets, comments, nextId>>
                  ELSE IF dbFails
                  THEN /\ ran' = stages
                       /\ res' = Response(500, "Failed to add comment", <<>>)
                       /\ UNCHANGED <<users, tickets, comments, nextId>>
                  ELSE IF ticket = {}
                  THEN /\ ran' = stages
                       /\ res' = Response(404, "Ticket not found", <<>>)
                       /\ UNCHANGED <<users, tickets, comments, nextId>>
                  ELSE IF auth.userId = {}
                  THEN /\ ran' = stages
                       /\ res' = Response(401, "Unauthorized: userId not found in request",
                                          <<>>)
                       /\ UNCHANGED <<users, tickets, comments, nextId>>
                  ELSE /\ nextId < MaxIds
                       /\ ran' = stages
                       /\ comments' = insertOne(comments, comment)
                       /\ nextId' = nextId + 1
                       /\ res' = Response(201, "", <<comment>>)
                       /\ UNCHANGED <<users, tickets>>
               /\ UNCHANGED <<now, issued, mw, call, clientVars, inflight>>

LegacyDeleteComment ==
    /\ Idle
    /\ \E sent \in Calls({NoBody}, 1..MaxIds, {NoBody}) :
           LET h == sent.h
               dbFails == sent.dbFails
               commentId == sent.id
               auth == authenticate(h, now)
               stages == <<"authenticate", "legacyDeleteComment">>
               comment == FindOne(comments, LAMBDA c : c.id = commentId)
           IN  /\ req' = Request("legacyDeleteComment", h, NoBody, commentId, NoQuery, dbFails,
                                 auth)
               /\ IF ~auth.next THEN Refused(auth)
                  ELSE IF dbFails
                  THEN /\ ran' = stages
                       /\ res' = Response(500, "Failed to delete comment", <<>>)
                       /\ UNCHANGED <<users, tickets, comments, nextId>>
                  ELSE IF comment = {}
                  THEN /\ ran' = stages
                       /\ res' = Response(404, "Comment not found", <<>>)
                       /\ UNCHANGED <<users, tickets, comments, nextId>>
                  ELSE IF auth.userId = {}
                  THEN /\ ran' = stages
                       /\ res' = Response(401, "Unauthorized: userId not found in request",
                                          <<>>)
                       /\ UNCHANGED <<users, tickets, comments, nextId>>
                  ELSE IF TheOne(comment).user # TheOne(auth.userId)
                  THEN /\ ran' = stages
                       /\ res' = Response(403, "Not authorized", <<>>)
                       /\ UNCHANGED <<users, tickets, comments, nextId>>
                  ELSE /\ ran' = stages
                       /\ comments' = comments \ comment
                       /\ res' = Response(200, "Comment deleted", <<>>)
                       /\ UNCHANGED <<users, tickets, nextId>>
               /\ UNCHANGED <<now, issued, mw, call, clientVars, inflight>>

(***************************************************************************)
(* frontend context/AuthContext.tsx                                        *)
(***************************************************************************)
JsNull == [t |-> "null", s |-> <<>>]

\* JSON.stringify of a User: the text {"_id":...,"username":...}, token by token
JsonStringify(u) == <<"{", "_id", u._id, "username", u.username, "}">>

\* JSON.parse: the value of a text, or a SyntaxError
JsonParse(text) ==
    IF text = <<"null">>
    THEN [threw |-> FALSE, value |-> JsNull]
    ELSE IF Len(text) = 6 /\ text[1] = "{" /\ text[2] = "_id" /\ text[4] = "username"
            /\ text[6] = "}"
    THEN [threw |-> FALSE, value |-> [_id |-> text[3], username |-> text[5]]]
    ELSE [threw |-> TRUE, value |-> JsNull]

\* the initializer of the user state
storedUser(userStr) ==
    IF Truthy(userStr)
    THEN IF JsonParse(userStr.s).threw THEN JsNull ELSE JsonParse(userStr.s).value
    ELSE JsNull

\* variant: const isLoggedIn = token !== null
isLoggedInUnlessNull(token) == token # JsNull

\* const isLoggedIn = !!token
isLoggedIn(token) == Truthy(token)

\* the context value of a render with the given state
Provided(token, user) == [token |-> token, user |-> user, isLoggedIn |-> isLoggedIn(token)]

\* the tokens and users handed to login
SessionTokens == Strings({"a", "b"}, {1, 2})

SessionUsers ==
    {[_id |-> ObjectIdString(i), username |-> Name(c)] : i \in 1..MaxIds, c \in {"a", "b"}}

\* what the storage may hold when the provider mounts
StoredSessions ==
    {[token |-> t, user |-> u] :
        t \in {JsNull, JsString(<<>>), JsString(Name("a"))},
        u \in {JsNull, JsString(<<>>), JsString(<<"{">>), JsString(<<"null">>)}
              \cup {JsString(JsonStringify(v)) : v \in SessionUsers}}

\* the provider mounts: both states are read from the storage
AuthProvider(stored) == Provided(stored.token, storedUser(stored.user))

login ==
    /\ \E newToken \in SessionTokens, newUser \in SessionUsers :
          /\ authContext' = Provided(JsString(newToken), newUser)
          /\ localStorage' = [localStorage EXCEPT
                                 !.token = JsString(newToken),
                                 !.user = JsString(JsonStringify(newUser))]
          /\ call' = [fn |-> "login", arg |-> [token |-> JsString(newToken), user |-> newUser],
                      out |-> JsUndefined]
    /\ UNCHANGED <<appVars, mw, inflight>>

logout ==
    /\ authContext' = Provided(JsNull, JsNull)
    /\ localStorage' = [localStorage EXCEPT !.token = JsNull, !.user = JsNull]
    /\ call' = [fn |-> "logout", arg |-> JsUndefined, out |-> JsUndefined]
    /\ UNCHANGED <<appVars, mw, inflight>>

(***************************************************************************)
(* Requests served concurrently: each handler runs up to its next awaited  *)
(* persistence call, another request may run in between.                   *)
(***************************************************************************)
Slots == {1, 2}

\* a request being served: where its handler stands, the result of its last awaited
\* call and the response it sent
Flight(op, pc, h, body, id, auth, found, response) ==
    [op |-> op, pc |-> pc, authorization |-> h, body |-> body, id |-> id,
     userId |-> auth.userId, username |-> auth.username, found |-> found, res |-> response]

NoFlight == Flight("none", "idle", NoHeader, NoBody, 0, NoAuth, {}, NoResponse)

Answered(f, response) == [f EXCEPT !.pc = "done", !.res = response]

Awaiting(f, pc, found) == [f EXCEPT !.pc = pc, !.found = found]

\* User.create: inserts the document; the collection has no unique index
UserCreate(coll, user) == coll \cup {user}

\* the requests that meet in the store
ConcurrentRequests ==
    {[op |-> "register", h |-> NoHeader, body |-> AuthBody(n, Password1), id |-> 0] :
        n \in {Name("b"), <<Run(" ", 1)>> \o Name("b")}}
    \cup {[op |-> "updateTicket", h |-> Bearer(t), body |-> b, id |-> 2] :
            t \in issued, b \in TicketBodies}
    \cup {[op |-> "createComment", h |-> Bearer(t), body |-> [CommentBody EXCEPT !.ticketId = 2],
           id |-> 0] : t \in issued}
    \cup {[op |-> "deleteTicket", h |-> Bearer(t), body |-> NoBody, id |-> 2] : t \in issued}

\* a request arrives: the middleware and the handler run up to the first await
Arrive(slot) ==
    /\ inflight[slot] = NoFlight
    /\ \E sent \in ConcurrentRequests :
          LET auth == IF sent.op = "register" THEN NoAuth
                      ELSE [userId |-> authenticate(sent.h, now).userId,
                            username |-> authenticate(sent.h, now).username]
              refused == sent.op # "register" /\ ~authenticate(sent.h, now).next
              validation ==
                  IF sent.op = "register" THEN validateAuthRequest(sent.body)
                  ELSE IF sent.op = "updateTicket" THEN validateTicketRequest(sent.body)
                  ELSE IF sent.op = "createComment" THEN validateCommentRequest(sent.body)
                  ELSE Valid
              f == Flight(sent.op, "arrived", sent.h, sent.body, sent.id, auth, {}, NoResponse)
          IN  inflight' = [inflight EXCEPT ![slot] =
                  IF refused
                  THEN Answered(f, Response(authenticate(sent.h, now).status, "", <<>>))
                  ELSE IF ~validation.isValid
                  THEN Answered(f, Response(400, validation.error, <<>>))
                  ELSE IF sent.op = "createComment" /\ sent.body.ticketId = 0
                  THEN Answered(f, Response(400, "Ticket ID is required", <<>>))
                  ELSE IF sent.op = "register" THEN Awaiting(f, "User.findOne", {})
                  ELSE IF sent.op = "updateTicket" THEN Awaiting(f, "Ticket.findOneAndUpdate", {})
                  ELSE IF sent.op = "createComment" THEN Awaiting(f, "Ticket.findOne", {})
                  ELSE Awaiting(f, "Ticket.findOneAndDelete", {})]
    /\ UNCHANGED <<appVars, mw, call, clientVars>>

\* await User.findOne({username: trimmedUsername}), then the existence check
RegisterFindOne(slot) ==
    LET f == inflight[slot]
        existingUser == FindOne(users, LAMBDA u : u.username = trimmedUsername(f.body))
    IN  /\ f.pc = "User.findOne"
        /\ inflight' = [inflight EXCEPT ![slot] =
               IF existingUser # {}
               THEN Answered(f, Response(400, "Username already exists", <<>>))
               ELSE Awaiting(f, "User.create", existingUser)]
        /\ UNCHANGED <<appVars, mw, call, clientVars>>

\* variant: the insert is refused when the username is stored by now
RegisterCreateIfAbsent(slot) ==
    LET f == inflight[slot]
        user == [id |-> nextId + 1, username |-> trimmedUsername(f.body),
                 password |-> bcryptHash(f.body.password.s)]
        taken == \E u \in users : u.username = user.username
    IN  /\ f.pc = "User.create"
        /\ nextId < MaxIds
        /\ users' = IF taken THEN users ELSE UserCreate(users, user)
        /\ nextId' = IF taken THEN nextId ELSE nextId + 1
        /\ inflight' = [inflight EXCEPT ![slot] =
               IF taken THEN Answered(f, Response(500, "Server error", <<>>))
               ELSE Answered(Awaiting(f, "done", {user}),
                             Response(201, "", <<PublicUser(user)>>))]
        /\ UNCHANGED <<tickets, comments, now, issued, req, res, ran, mw, call, clientVars>>

\* await bcrypt.hash, await User.create, then the 201 response
RegisterCreate(slot) ==
    LET f == inflight[slot]
        user == [id |-> nextId + 1, username |-> trimmedUsername(f.body),
                 password |-> bcryptHash(f.body.password.s)]
    IN  /\ f.pc = "User.create"
        /\ nextId < MaxIds
        /\ users' = UserCreate(users, user)
        /\ nextId' = nextId + 1
        /\ inflight' = [inflight EXCEPT ![slot] =
               Answered(Awaiting(f, "done", {user}), Response(201, "", <<PublicUser(user)>>))]
        /\ UNCHANGED <<tickets, comments, now, issued, req, res, ran, mw, call, clientVars>>

\* await Ticket.findOneAndUpdate(filter, updateData, {new: true}): one atomic
\* find and write that returns the document as written, then the response
UpdateFindOneAndUpdate(slot) ==
    LET f == inflight[slot]
        found == FindOne(tickets, LAMBDA t : updateFilter(t, f.id, TheOne(f.userId)))
        old == TheOne(found)
        ticket == updatedTicket(old, f.body)
    IN  /\ f.pc = "Ticket.findOneAndUpdate"
        /\ IF found = {}
           THEN /\ inflight' = [inflight EXCEPT ![slot] =
                       Answered(f, Response(404, "Ticket not found", <<>>))]
                /\ UNCHANGED tickets
           ELSE /\ tickets' = (tickets \ {old}) \cup {ticket}
                /\ inflight' = [inflight EXCEPT ![slot] =
                       Answered(Awaiting(f, "done", {ticket}), Response(200, "", <<ticket>>))]
        /\ UNCHANGED <<users, comments, nextId, now, issued, req, res, ran, mw, call, clientVars>>

\* await Ticket.findOne({_id: ticketId}), then the existence check
CommentFindOne(slot) ==
    LET f == inflight[slot]
        ticket == FindOne(tickets, LAMBDA t : t.id = f.body.ticketId)
    IN  /\ f.pc = "Ticket.findOne"
        /\ inflight' = [inflight EXCEPT ![slot] =
               IF ticket = {}
               THEN Answered(f, Response(404, "Ticket not found", <<>>))
               ELSE Awaiting(f, "Comment.create", ticket)]
        /\ UNCHANGED <<appVars, mw, call, clientVars>>

\* await Comment.create, then the 201 response
CommentCreate(slot) ==
    LET f == inflight[slot]
        comment == NewComment(f.body, TheOne(f.userId), TheOne(f.username), nextId + 1)
    IN  /\ f.pc = "Comment.create"
        /\ nextId < MaxIds
        /\ comments' = insertOne(comments, comment)
        /\ nextId' = nextId + 1
        /\ inflight' = [inflight EXCEPT ![slot] =
               Answered(Awaiting(f, "done", {comment}), Response(201, "", <<comment>>))]
        /\ UNCHANGED <<users, tickets, now, issued, req, res, ran, mw, call, clientVars>>

\* await Ticket.findOneAndDelete({_id, createdBy}), then the response
TicketFindOneAndDelete(slot) ==
    LET f == inflight[slot]
        found == FindOne(tickets, LAMBDA t : ticketOfUser(t, f.id, TheOne(f.userId)))
    IN  /\ f.pc = "Ticket.findOneAndDelete"
        /\ tickets' = tickets \ found
        /\ inflight' = [inflight EXCEPT ![slot] =
               IF found = {}
               THEN Answered(f, Response(404, "Ticket not found", <<>>))
               ELSE Answered(Awaiting(f, "done", found), Response(200, "Ticket deleted", <<>>))]
        /\ UNCHANGED <<users, comments, nextId, now, issued, req, res, ran, mw, call, clientVars>>

(***************************************************************************)
(* Specifications.                                                         *)
(***************************************************************************)
Init ==
    /\ users = {}
    /\ tickets = {}
    /\ comments = {}
    /\ nextId = 0
    /\ now = 0
    /\ issued = {}
    /\ req = NoRequest
    /\ res = NoResponse
    /\ ran = <<>>
    /\ mw = NoMw
    /\ call = NoCall
    /\ authContext = AuthProvider([token |-> JsNull, user |-> JsNull])
    /\ localStorage = [token |-> JsNull, user |-> JsNull]
    /\ inflight = <<>>

\* the application serving requests one at a time, within the lifetime of the
\* tokens it issues
Next ==
    \/ Register
    \/ Login
    \/ CreateTicket
    \/ ListTickets
    \/ GetTicket
    \/ UpdateTicket
    \/ DeleteTicket
    \/ ListComments
    \/ CreateComment
    \/ DeleteComment
    \/ Finish

Spec == Init /\ [][Next]_vars

\* the application serving requests one at a time while the clock advances
NextClock ==
    \/ Register
    \/ Login
    \/ CreateTicket
    \/ ListTickets
    \/ GetTicket
    \/ UpdateTicket
    \/ DeleteTicket
    \/ ListComments
    \/ CreateComment
    \/ DeleteComment
    \/ Finish
    \/ Tick

SpecClock == Init /\ [][NextClock]_vars

\* the application with the earlier comments router in place of the present one
NextLegacy ==
    \/ Register
    \/ Login
    \/ CreateTicket
    \/ LegacyListComments
    \/ LegacyCreateComment
    \/ LegacyDeleteComment
    \/ Finish

SpecLegacy == Init /\ [][NextLegacy]_vars

\* authenticate on its own
NextAuth == CallAuthenticate

SpecAuth == Init /\ [][NextAuth]_vars

\* the validators on their own
NextValidation ==
    \/ CallValidateUsername
    \/ CallClientValidateUsername
    \/ CallValidatePassword
    \/ CallValidateTicketTitle
    \/ CallClientValidateTicketTitle
    \/ CallValidateComment
    \/ CallClientValidateComment
    \/ CallValidateTicketStatus

SpecValidation == Init /\ [][NextValidation]_vars

\* the provider mounted over any stored session, login and logout called in any order
InitSession ==
    /\ users = {}
    /\ tickets = {}
    /\ comments = {}
    /\ nextId = 0
    /\ now = 0
    /\ issued = {}
    /\ req = NoRequest
    /\ res = NoResponse
    /\ ran = <<>>
    /\ mw = NoMw
    /\ call = NoCall
    /\ inflight = <<>>
    /\ localStorage \in StoredSessions
    /\ authContext = AuthProvider(localStorage)

NextSession ==
    \/ login
    \/ logout

SpecSession == InitSession /\ [][NextSession]_vars

\* user aaa has registered, logged in and created ticket 2
FirstUser == [id |-> 1, username |-> Name("a"), password |-> bcryptHash(Password1)]

FirstTicket == NewTicket(TicketBody, 1, 2)

\* two requests arrive at that application and are served concurrently
InitConcurrent ==
    /\ users = {FirstUser}
    /\ tickets = {FirstTicket}
    /\ comments = {}
    /\ nextId = 2
    /\ now = 0
    /\ issued = {jwtSign(1, Name("a"), JWT_SECRET, 0)}
    /\ req = NoRequest
    /\ res = NoResponse
    /\ ran = <<>>
    /\ mw = NoMw
    /\ call = NoCall
    /\ authContext = AuthProvider([token |-> JsNull, user |-> JsNull])
    /\ localStorage = [token |-> JsNull, user |-> JsNull]
    /\ inflight = [slot \in Slots |-> NoFlight]

NextConcurrent ==
    \E slot \in Slots :
        \/ Arrive(slot)
        \/ RegisterFindOne(slot)
        \/ RegisterCreate(slot)
        \/ UpdateFindOneAndUpdate(slot)
        \/ CommentFindOne(slot)
        \/ CommentCreate(slot)
        \/ TicketFindOneAndDelete(slot)

SpecConcurrent == InitConcurrent /\ [][NextConcurrent]_vars

(***************************************************************************)
(* Properties.                                                             *)
(***************************************************************************)
\* the second space-separated word of a header, <<>> when there is none
HeaderToken(h) ==
    LET parts == Split(h.s) IN IF Len(parts) >= 2 THEN parts[2] ELSE <<>>

\* the word is a token signed with the server's secret and not yet expired
GoodToken(word, clock) ==
    /\ Len(word) = 1
    /\ word[1].k = "jwt"
    /\ \A t \in word[1].jwt : t.secret = JWT_SECRET /\ (t.exp = {} \/ clock < TheOne(t.exp))

NothingAttached == mw.nextCalls = 0 /\ mw.userId = {} /\ mw.username = {}

\* C1: authenticate answers 401 to an absent or empty Authorization header and 403
\* to a header whose token is malformed, signed with another secret or expired; in
\* both cases next() is not called and neither userId nor username is attached.
C1_RejectsWithoutNext ==
    mw.called =>
        /\ (~mw.authorization.present \/ mw.authorization.s = <<>>)
              => mw.sent = <<401>> /\ NothingAttached
        /\ (/\ mw.authorization.present
            /\ mw.authorization.s # <<>>
            /\ ~GoodToken(HeaderToken(mw.authorization), mw.clock))
              => mw.sent = <<403>> /\ NothingAttached

\* an expired token signed with the server's secret was answered 403
C1_Witness ==
    /\ mw.called
    /\ \E t \in UnitTokens :
          /\ mw.authorization = Bearer(t)
          /\ t.secret = JWT_SECRET
          /\ t.exp # {} /\ mw.clock >= TheOne(t.exp)
    /\ mw.sent = <<403>>

\* C2: for a header "Bearer <t>", t signed with the server's secret and not expired,
\* authenticate attaches the userId and username of t's payload, calls next() once
\* and sends no status.
C2_AcceptsValidBearer ==
    \A t \in UnitTokens :
        (/\ mw.called
         /\ mw.authorization = Bearer(t)
         /\ t.secret = JWT_SECRET
         /\ (t.exp = {} \/ mw.clock < TheOne(t.exp)))
        => /\ mw.userId = {t.userId}
           /\ mw.username = {t.username}
           /\ mw.nextCalls = 1
           /\ mw.sent = <<>>

\* a token with an expiry still ahead was accepted
C2_Witness ==
    /\ mw.called
    /\ \E t \in UnitTokens :
          /\ mw.authorization = Bearer(t)
          /\ t.exp # {} /\ mw.clock < TheOne(t.exp)
          /\ mw.userId = {t.userId}
    /\ mw.nextCalls = 1

\* the runs of s between its leading and its trailing whitespace (a canonical
\* string has at most one run of whitespace at either end)
Stripped(s) ==
    LET lo == IF s # <<>> /\ s[1].c \in Whitespace THEN 2 ELSE 1
        hi == IF s # <<>> /\ s[Len(s)].c \in Whitespace THEN Len(s) - 1 ELSE Len(s)
    IN  IF lo > hi THEN <<>> ELSE [i \in 1..(hi - lo + 1) |-> s[lo + i - 1]]

TrimmedLength(s) ==
    LET inner == Stripped(s)
        Sum[i \in 0..Len(inner)] == IF i = 0 THEN 0 ELSE Sum[i - 1] + inner[i].n
    IN  Sum[Len(inner)]

TrimmedChars(s) == {Stripped(s)[i].c : i \in 1..Len(Stripped(s))}

\* C9: the backend validateTicketTitle accepts a string title iff
\* 3 <= len(trim(title)) <= 100, and rejects a missing or non-string title as
\* "Title is required".
C9_TitleLength ==
    call.fn = "validateTicketTitle" =>
        /\ call.arg.t = "string" =>
              (call.out.isValid <=>
                  (3 <= TrimmedLength(call.arg.s) /\ TrimmedLength(call.arg.s) <= 100))
        /\ call.arg.t # "string" => call.out = Invalid("Title is required")

\* a title of 100 characters between whitespace was accepted
C9_Witness ==
    /\ call.fn = "validateTicketTitle"
    /\ call.arg.t = "string"
    /\ Len(call.arg.s) = 3
    /\ call.arg.s[1].c = " " /\ call.arg.s[3].c = " "
    /\ call.arg.s[2].n = 100
    /\ call.out.isValid

ValidUsername(s) ==
    /\ 3 <= TrimmedLength(s) /\ TrimmedLength(s) <= 20
    /\ TrimmedChars(s) \subseteq (Letters \cup Digits \cup {"_", "-"})

\* C10: for every username u, validateUsername(u), of the backend and of the
\* frontend, is valid iff 3 <= len(trim(u)) <= 20 and trim(u) consists of letters,
\* digits, underscores and hyphens.
C10_UsernameValid ==
    (call.fn \in {"validateUsername", "clientValidateUsername"} /\ call.arg.t = "string")
        => (call.out.isValid <=> ValidUsername(call.arg.s))

\* C10, for the backend validator alone
C10_BackendUsernameValid ==
    (call.fn = "validateUsername" /\ call.arg.t = "string")
        => (call.out.isValid <=> ValidUsername(call.arg.s))

ProtectedOps ==
    {"createTicket", "listTickets", "getTicket", "updateTicket", "deleteTicket",
     "listComments", "createComment", "deleteComment"}

\* the request carries a token that authenticate accepts at the given hour
Accepted(r, clock) ==
    r.authorization.present /\ GoodToken(HeaderToken(r.authorization), clock)

StoresUnchanged == users' = users /\ tickets' = tickets /\ comments' = comments

HandlerRan(r, stages) == \E i \in 1..Len(stages) : stages[i] = r.op

\* C3: on every ticket and comment route authenticate runs first, and a request
\* without a token it accepts is answered 401 or 403, runs no handler and leaves
\* users, tickets and comments unchanged.
C3_RoutesGuarded ==
    [][(Idle /\ req'.op \in ProtectedOps) =>
          /\ ran'[1] = "authenticate"
          /\ ~Accepted(req', now) =>
                /\ ran' = <<"authenticate">>
                /\ res'.status \in {401, 403}
                /\ StoresUnchanged]_vars

\* a ticket create with a forged token was refused while tickets are stored
C3_Witness ==
    /\ req.op = "createTicket"
    /\ req.authorization.present
    /\ res.status = 403
    /\ tickets # {}

UniqueUsernames == \A u, v \in users : u.username = v.username => u = v

TakenBy(r, coll) == \E u \in coll : u.username = Stripped(r.body.username.s)

WellShaped(body) ==
    validateUsername(body.username).isValid /\ validatePassword(body.password).isValid

\* C5: with a working store, a login with validly shaped username and password is
\* answered 401 "Invalid username or password", without a token, both when no user
\* has the username and when one has it with another password.
C5_SameRefusal ==
    (/\ req.op = "login"
     /\ ~req.dbFails
     /\ WellShaped(req.body)
     /\ \/ ~TakenBy(req, users)
        \/ \E u \in users : /\ u.username = Stripped(req.body.username.s)
                            /\ u.password # bcryptHash(req.body.password.s))
    => res = Response(401, "Invalid username or password", <<>>)

\* a stored user's login with another password was refused
C5_Witness ==
    /\ req.op = "login"
    /\ TakenBy(req, users)
    /\ WellShaped(req.body)
    /\ res.status = 401

\* C6: the token a successful login returns carries the id and username of the user
\* who logged in; presented as "Bearer <token>" less than 24 hours after its issue
\* it makes authenticate attach that id and username, and from 24 hours on it is
\* answered 403.
C6_TokenLifetime ==
    /\ (req.op = "login" /\ res.status = 200) =>
          \E u \in users :
              /\ u.username = Stripped(req.body.username.s)
              /\ res.body[1].token.userId = u.id
              /\ res.body[1].token.username = u.username
              /\ res.body[1].token.iat = now
              /\ res.body[1].token \in issued
    /\ \A t \in issued :
          (req.op \in ProtectedOps /\ req.authorization = Bearer(t)) =>
              IF now < t.iat + 24
              THEN /\ req.userId = {t.userId}
                   /\ req.username = {t.username}
                   /\ Len(ran) > 1
              ELSE /\ res.status = 403
                   /\ ran = <<"authenticate">>
                   /\ req.userId = {}

\* a token was refused 24 hours after the login that returned it
C6_Witness ==
    /\ req.op \in ProtectedOps
    /\ \E t \in issued : req.authorization = Bearer(t) /\ now = t.iat + 24
    /\ res.status = 403

ValidatedOps == {"register", "login", "createTicket", "updateTicket", "createComment"}

\* the message of the first validator that rejects a field of the body, "" if none
BodyError(r) ==
    LET checks ==
            IF r.op \in {"register", "login"}
            THEN <<validateUsername(r.body.username), validatePassword(r.body.password)>>
            ELSE IF r.op \in {"createTicket", "updateTicket"}
            THEN <<validateTicketTitle(r.body.title),
                   validateTicketDescription(r.body.description),
                   validateTicketStatus(r.body.status)>>
            ELSE <<validateComment(r.body.content)>>
        failing == {i \in 1..Len(checks) : ~checks[i].isValid}
    IN  IF failing = {} THEN ""
        ELSE checks[CHOOSE i \in failing : \A j \in failing : i <= j].error

\* C7: on register, login, ticket create, ticket update and comment create, a
\* request that reaches the validation middleware with a body it rejects is
\* answered 400 with the validator's message, its handler does not run, and users,
\* tickets and comments are unchanged.
C7_InvalidBodyRejected ==
    [][(/\ Idle
        /\ req'.op \in ValidatedOps
        /\ req'.op \in ProtectedOps => Accepted(req', now)
        /\ BodyError(req') # "") =>
          /\ res' = Response(400, BodyError(req'), <<>>)
          /\ ~HandlerRan(req', ran')
          /\ StoresUnchanged]_vars

\* an update of an existing ticket with an invalid status was refused
C7_Witness ==
    /\ req.op = "updateTicket"
    /\ \E t \in tickets : t.id = req.id
    /\ req.body.status \notin validStatuses \cup {"", StatusUndefined}
    /\ res.status = 400

\* C8: with a working store, a ticket create with a valid body by an authenticated
\* user stores exactly one new ticket, with the trimmed title, the status of the
\* request if it names one and OPEN otherwise, and the user as createdBy; the
\* response is 201 with that ticket, and nothing else stored changes.
C8_CreateStoresOne ==
    [][(/\ Idle
        /\ req'.op = "createTicket"
        /\ Accepted(req', now)
        /\ ~req'.dbFails
        /\ BodyError(req') = "") =>
          \E t \in tickets' :
              /\ \A old \in tickets : old.id # t.id
              /\ tickets' = tickets \cup {t}
              /\ t.title = Stripped(req'.body.title.s)
              /\ t.status = IF req'.body.status \in validStatuses
                            THEN req'.body.status ELSE "OPEN"
              /\ {t.createdBy} = {k.userId : k \in HeaderToken(req'.authorization)[1].jwt}
              /\ res' = Response(201, "", <<t>>)
              /\ users' = users /\ comments' = comments]_vars

\* a second ticket was created, from a title with trailing whitespace and no status
C8_Witness ==
    /\ req.op = "createTicket"
    /\ res.status = 201
    /\ Cardinality(tickets) = 2
    /\ req.body.status = StatusUndefined
    /\ req.body.title.s # Stripped(req.body.title.s)

\* the number of characters of s
Length(s) ==
    LET Sum[i \in 0..Len(s)] == IF i = 0 THEN 0 ELSE Sum[i - 1] + s[i].n
    IN  Sum[Len(s)]

HasLetterAndDigit(s) ==
    /\ \E i \in 1..Len(s) : s[i].c \in Letters
    /\ \E i \in 1..Len(s) : s[i].c \in Digits

\* C11: for every password p, validatePassword(p) is valid iff 6 <= len(p) <= 100
\* and p contains at least one letter and at least one digit.
C11_PasswordValid ==
    (call.fn = "validatePassword" /\ call.arg.t = "string")
        => (call.out.isValid <=>
               /\ 6 <= Length(call.arg.s) /\ Length(call.arg.s) <= 100
               /\ HasLetterAndDigit(call.arg.s))

\* C11, for the passwords without a line terminator
C11_SingleLinePasswordValid ==
    (/\ call.fn = "validatePassword"
     /\ call.arg.t = "string"
     /\ \A i \in 1..Len(call.arg.s) : call.arg.s[i].c \notin LineTerminators)
        => (call.out.isValid <=>
               /\ 6 <= Length(call.arg.s) /\ Length(call.arg.s) <= 100
               /\ HasLetterAndDigit(call.arg.s))

\* a password of 100 characters on one line was accepted
C11_SingleLineWitness ==
    /\ call.fn = "validatePassword"
    /\ call.arg.t = "string"
    /\ Length(call.arg.s) = 100
    /\ Len(call.arg.s) = 3
    /\ call.out.isValid

\* the user id in the token the request carries
RequesterId(r) == TheOne({k.userId : k \in HeaderToken(r.authorization)[1].jwt})

DeleteCommentOps == {"deleteComment", "legacyDeleteComment"}

\* the user who wrote the comment
Author(c) == IF "userId" \in DOMAIN c THEN c.userId ELSE c.user

\* what the router answers to the delete of an id no comment has
CommentNotFound(op) ==
    IF op = "deleteComment" THEN "Comment not found or unauthorized" ELSE "Comment not found"

\* C13: with a working store, the delete of a comment id by an authenticated user is
\* answered in the same way, status 404 and the same message, when no comment has
\* the id and when the comment is another user's.
C13_DeleteRefusalsAlike ==
    [][(/\ Idle
        /\ req'.op \in DeleteCommentOps
        /\ Accepted(req', now)
        /\ ~req'.dbFails
        /\ \A c \in comments : c.id = req'.id => Author(c) # RequesterId(req')) =>
          res' = Response(404, CommentNotFound(req'.op), <<>>)]_vars

\* C13, for the router of routes/comments.ts alone
C13_PresentRouterRefusalsAlike ==
    [][(/\ Idle
        /\ req'.op = "deleteComment"
        /\ Accepted(req', now)
        /\ ~req'.dbFails
        /\ \A c \in comments : c.id = req'.id => Author(c) # RequesterId(req')) =>
          res' = Response(404, CommentNotFound(req'.op), <<>>)]_vars

\* the username in the token the request carries
RequesterName(r) == TheOne({k.username : k \in HeaderToken(r.authorization)[1].jwt})

C15_ListComments ==
    (req.op = "listComments" /\ Accepted(req, now) /\ ~req.dbFails) =>
        IF \A t \in tickets : t.id # req.id
        THEN res.status = 404
        ELSE /\ res.status = 200
             /\ {res.body[i] : i \in 1..Len(res.body)} = {c \in comments : c.ticketId = req.id}
             /\ \A i, j \in 1..Len(res.body) :
                   i < j => res.body[i].createdAt < res.body[j].createdAt

\* a list of two comments was returned
C15_Witness ==
    /\ req.op = "listComments"
    /\ res.status = 200
    /\ Len(res.body) = 2

\* text contains s, character for character up to the case of letters
ContainsIgnoringCase(text, s) ==
    LET p == Expand(s)
        t == Expand(text)
    IN  \E i \in 0..(Len(t) - Len(p)) : \A j \in 1..Len(p) : ToLower(p[j]) = ToLower(t[i + j])

HasIdShape(s) == Length(s) = 24 /\ \A i \in 1..Len(s) : s[i].c \in HexChars

SearchAllows(ticket, s) ==
    \/ ContainsIgnoringCase(ticket.title, s)
    \/ HasIdShape(s) /\ ObjectIdString(ticket.id) = s

RegexMetaCharacters == {".", "*", "+", "?", "(", ")", "[", "]", "{", "}", "^", "$", "|", "\\"}

\* C16: a ticket list with a search string s returns a ticket only if its title
\* contains s as a literal substring, letters compared without regard to case, or s
\* has the shape of an id and is the ticket's id; with a status filter, every ticket
\* returned also has that status.
C16_SearchIsLiteral ==
    (req.op = "listTickets" /\ res.status = 200) =>
        \A i \in 1..Len(res.body) :
            /\ Truthy(req.query.search) => SearchAllows(res.body[i], req.query.search.s)
            /\ req.query.status \notin {"", StatusUndefined}
                  => res.body[i].status = req.query.status

\* C16, for the search strings without a character that is special in a regular
\* expression
C16_PlainSearchIsLiteral ==
    (/\ req.op = "listTickets"
     /\ res.status = 200
     /\ Truthy(req.query.search)
           => \A i \in 1..Len(req.query.search.s) :
                 req.query.search.s[i].c \notin RegexMetaCharacters) =>
        \A i \in 1..Len(res.body) :
            /\ Truthy(req.query.search) => SearchAllows(res.body[i], req.query.search.s)
            /\ req.query.status \notin {"", StatusUndefined}
                  => res.body[i].status = req.query.status

\* a ticket was found by its id
C16_IdSearchWitness ==
    /\ req.op = "listTickets"
    /\ res.status = 200
    /\ Truthy(req.query.search)
    /\ HasIdShape(req.query.search.s)
    /\ Len(res.body) = 1

\* C17: every ticket in the response to a ticket list was created by the user who
\* asked for the list.
C17_ListOwnTickets ==
    (req.op = "listTickets" /\ res.status = 200) =>
        \A i \in 1..Len(res.body) : res.body[i].createdBy = RequesterId(req)

\* the body supplies a status and neither title nor description
OnlyStatus(body) ==
    /\ body.title = JsUndefined
    /\ body.description = JsUndefined
    /\ body.status \in validStatuses

\* C18: with a working store, an update of an existing ticket by an authenticated
\* user with a body that supplies a status only is answered 200, sets the status and
\* leaves everything else of the ticket, and every other ticket, as it was.
C18_StatusOnlyUpdate ==
    [][(/\ Idle
        /\ req'.op = "updateTicket"
        /\ Accepted(req', now)
        /\ ~req'.dbFails
        /\ OnlyStatus(req'.body)) =>
          \A t \in tickets :
              t.id = req'.id =>
                  /\ res' = Response(200, "", <<[t EXCEPT !.status = req'.body.status]>>)
                  /\ tickets' = (tickets \ {t}) \cup {[t EXCEPT !.status = req'.body.status]}]_vars

\* what the present code does with such an update: 400 "Title is required", the
\* handler not run, nothing changed
C18_StatusOnlyUpdateRefused ==
    [][(/\ Idle
        /\ req'.op = "updateTicket"
        /\ Accepted(req', now)
        /\ OnlyStatus(req'.body)) =>
          /\ res' = Response(400, "Title is required", <<>>)
          /\ ~HandlerRan(req', ran')
          /\ StoresUnchanged]_vars

\* C19: with a working store, a ticket delete by an authenticated user who did not
\* create the ticket, or for an id no ticket has, is answered 404 "Ticket not found"
\* and leaves the tickets unchanged; a delete by the creator removes that ticket and
\* nothing else and is answered 200 "Ticket deleted".
C19_CreatorOnlyDelete ==
    [][(/\ Idle
        /\ req'.op = "deleteTicket"
        /\ Accepted(req', now)
        /\ ~req'.dbFails) =>
          IF \E t \in tickets : t.id = req'.id /\ t.createdBy = RequesterId(req')
          THEN /\ res' = Response(200, "Ticket deleted", <<>>)
               /\ tickets' = {t \in tickets : t.id # req'.id}
               /\ Cardinality(tickets') = Cardinality(tickets) - 1
               /\ users' = users /\ comments' = comments
          ELSE /\ res' = Response(404, "Ticket not found", <<>>)
               /\ StoresUnchanged]_vars

\* a user asked to delete another user's ticket and was answered 404
C19_Witness ==
    /\ req.op = "deleteTicket"
    /\ res.status = 404
    /\ \E t \in tickets : t.id = req.id /\ t.createdBy # RequesterId(req)

\* C20: whatever ticket creates and updates were sent, valid or not, every stored
\* ticket has status OPEN, IN_PROGRESS or CLOSED.
C20_StoredStatusValid ==
    \A t \in tickets : t.status \in {"OPEN", "IN_PROGRESS", "CLOSED"}

\* a create with a status outside the three was refused while tickets are stored
C20_Witness ==
    /\ req.op = "createTicket"
    /\ req.body.status \notin {"OPEN", "IN_PROGRESS", "CLOSED", "", StatusUndefined}
    /\ res.status = 400
    /\ tickets # {}
    /\ \E t \in tickets : t.status = "CLOSED"

\* the handler of the request ran with a persistence call that was rejected
PersistenceFailed(r, stages) == r.dbFails /\ HandlerRan(r, stages)

\* C21: on every ticket and comment route and on register and login, a request whose
\* handler meets a rejected persistence call is answered 500 with the message
\* 'Server error'; no such request stays without a response.
C21_FailureAnswered ==
    PersistenceFailed(req, ran) => res = Response(500, "Server error", <<>>)

\* C22: after the provider mounts and after any sequence of login and logout calls,
\* isLoggedIn is true exactly when the held token is a non-empty string; after login
\* the state holds the given token and user and the storage holds the token and the
\* user's JSON text; after logout token and user are null and both keys are removed.
C22_SessionState ==
    /\ authContext.isLoggedIn <=>
          (authContext.token.t = "string" /\ StrLen(authContext.token.s) > 0)
    /\ call.fn = "login" =>
          /\ authContext.token = call.arg.token
          /\ authContext.user = call.arg.user
          /\ localStorage.token = call.arg.token
          /\ localStorage.user.t = "string"
          /\ JsonParse(localStorage.user.s) = [threw |-> FALSE, value |-> call.arg.user]
    /\ call.fn = "logout" =>
          /\ authContext.token = JsNull
          /\ authContext.user = JsNull
          /\ localStorage = [token |-> JsNull, user |-> JsNull]

\* login was called with a non-empty token
C22_Witness ==
    /\ call.fn = "login"
    /\ StrLen(call.arg.token.s) > 0
    /\ authContext.isLoggedIn
    /\ localStorage.token = call.arg.token

SameUsername(f, g) ==
    /\ f.op = "register" /\ g.op = "register"
    /\ f.body.username.t = "string" /\ g.body.username.t = "string"
    /\ Stripped(f.body.username.s) = Stripped(g.body.username.s)

\* the request passed the existence check and has not inserted yet
CheckedNotInserted(f) == f.op = "register" /\ f.pc = "User.create"

\* C24: when two register requests for the same username, one no stored user has,
\* have both run the existence check before either inserted, both passed it; each
\* then inserts and is answered 201; and once both are done the store holds two
\* users with that username.
C24_BothInsert ==
    /\ [](\A i, j \in Slots :
            (/\ i # j
             /\ SameUsername(inflight[i], inflight[j])
             /\ inflight[i].pc \in {"User.create", "done"}
             /\ inflight[j].pc \in {"User.create", "done"}
             /\ \A u \in users : u.username # Stripped(inflight[i].body.username.s)) =>
                /\ CheckedNotInserted(inflight[i])
                /\ CheckedNotInserted(inflight[j]))
    /\ [][\A i \in Slots :
            (CheckedNotInserted(inflight[i]) /\ inflight'[i] # inflight[i]) =>
                /\ inflight'[i].pc = "done"
                /\ inflight'[i].res.status = 201
                /\ \E u \in users' \ users :
                       /\ u.username = Stripped(inflight[i].body.username.s)
                       /\ users' = users \cup {u}]_vars
    /\ [](\A i, j \in Slots :
            (/\ i # j
             /\ SameUsername(inflight[i], inflight[j])
             /\ inflight[i].res.status = 201
             /\ inflight[j].res.status = 201) =>
                Cardinality({u \in users :
                                u.username = Stripped(inflight[i].body.username.s)}) = 2)

\* both requests were answered 201 and two users share the username
C24_Witness ==
    /\ SameUsername(inflight[1], inflight[2])
    /\ inflight[1].body.username # inflight[2].body.username
    /\ inflight[1].res.status = 201
    /\ inflight[2].res.status = 201
    /\ ~UniqueUsernames

\* the ticket t after an update with a validated body: the trimmed title, and the
\* description and status of the body where it supplies them
Updated(t, body) ==
    [t EXCEPT !.title = Stripped(body.title.s),
              !.description = IF body.description = JsUndefined THEN @
                              ELSE JsString(Stripped(body.description.s)),
              !.status = IF body.status \in validStatuses THEN body.status ELSE @]

\* the update request in this slot was answered 200
UpdateDone(f) == f.op = "updateTicket" /\ f.pc = "done" /\ f.res.status = 200

\* C25: every write of a concurrent update is one step that replaces the stored
\* ticket by the ticket updated with the request's body and answers 200 with exactly
\* that document; so after two concurrent valid updates of a ticket the stored ticket
\* is the result of the two updates in one of the two serial orders, one response
\* shows the first update alone and the other response shows the stored ticket.
C25_UpdatesSerialize ==
    /\ [][\A i \in Slots :
            (inflight[i].pc = "Ticket.findOneAndUpdate" /\ inflight'[i] # inflight[i]) =>
                \A t \in tickets :
                    t.id = inflight[i].id =>
                        /\ tickets' = (tickets \ {t}) \cup {Updated(t, inflight[i].body)}
                        /\ inflight'[i].pc = "done"
                        /\ inflight'[i].res = Response(200, "", <<Updated(t, inflight[i].body)>>)]_vars
    /\ [](\A i, j \in Slots :
            (i # j /\ UpdateDone(inflight[i]) /\ UpdateDone(inflight[j])) =>
                LET first == Updated(FirstTicket, inflight[i].body)
                    second == Updated(FirstTicket, inflight[j].body)
                    ij == Updated(first, inflight[j].body)
                    ji == Updated(second, inflight[i].body)
                IN  \/ /\ tickets = {ij}
                       /\ inflight[i].res.body = <<first>>
                       /\ inflight[j].res.body = <<ij>>
                    \/ /\ tickets = {ji}
                       /\ inflight[j].res.body = <<second>>
                       /\ inflight[i].res.body = <<ji>>)

\* two updates whose serial orders differ were both answered, and the stored ticket
\* keeps the status that only the first of them supplied
C25_Witness ==
    /\ UpdateDone(inflight[1]) /\ UpdateDone(inflight[2])
    /\ Updated(Updated(FirstTicket, inflight[1].body), inflight[2].body)
           # Updated(Updated(FirstTicket, inflight[2].body), inflight[1].body)
    /\ inflight[1].res.body # inflight[2].res.body
    /\ \E t \in tickets : t.status = "CLOSED" /\ inflight[2].res.body = <<t>>
    /\ inflight[2].body.status # "CLOSED"

\* C26: whenever a comment is stored, in any interleaving of comment creates with
\* ticket deletes, a ticket with the comment's ticketId is stored at that moment.
C26_CommentOnStoredTicket ==
    [][\A c \in comments' \ comments : \E t \in tickets : t.id = c.ticketId]_vars

\* the comment's ticket is no longer stored
Orphan(c) == \A t \in tickets : t.id # c.ticketId

\* C27: a ticket delete, whatever its outcome, leaves the comments as they were, so
\* the comments of a deleted ticket stay stored; with a working store, a list of the
\* comments of a ticket id that stored comments carry and no ticket has is answered
\* 404 "Ticket not found", and a delete of such a comment by its author is answered
\* 200 "Comment deleted" and removes that comment alone.
C27_CommentsOutliveTicket ==
    /\ [][(Idle /\ req'.op = "deleteTicket") =>
             /\ comments' = comments
             /\ res'.status = 200 =>
                   \A c \in comments : c.ticketId = req'.id => (c \in comments' /\ Orphan(c)')]_vars
    /\ [][(/\ Idle
           /\ req'.op = "listComments"
           /\ Accepted(req', now)
           /\ ~req'.dbFails
           /\ \E c \in comments : c.ticketId = req'.id /\ Orphan(c)) =>
             /\ res' = Response(404, "Ticket not found", <<>>)
             /\ StoresUnchanged]_vars
    /\ [][(/\ Idle
           /\ req'.op = "deleteComment"
           /\ Accepted(req', now)
           /\ ~req'.dbFails) =>
             \A c \in comments :
                 (c.id = req'.id /\ c.userId = RequesterId(req') /\ Orphan(c)) =>
                     /\ res' = Response(200, "Comment deleted", <<>>)
                     /\ comments' = comments \ {c}
                     /\ users' = users /\ tickets' = tickets]_vars

\* the author deleted one of two comments of a deleted ticket; the other is still
\* stored
C27_Witness ==
    /\ req.op = "deleteComment"
    /\ res.status = 200
    /\ tickets = {}
    /\ \E c \in comments : Orphan(c) /\ c.id # req.id /\ c.userId = RequesterId(req)

\* the comments of a deleted ticket were asked for and refused
C27_ListRefused ==
    /\ req.op = "listComments"
    /\ res.status = 404
    /\ \E c \in comments : c.ticketId = req.id

\* C28: authenticate calls next() only for a header that is the word Bearer, one
\* space and a token signed with the server's secret and not expired; a header
\* whose first word is anything else is refused, whatever its second word.
C28_BearerOnly ==
    (mw.called /\ mw.nextCalls = 1) =>
        \E t \in UnitTokens :
            /\ mw.authorization = Bearer(t)
            /\ t.secret = JWT_SECRET
            /\ (t.exp = {} \/ mw.clock < TheOne(t.exp))

\* C29: on every string, the frontend validateUsername, validateTicketTitle and
\* validateComment return the isValid that the backend validator of the same name
\* returns.
C29_ValidatorsAgree ==
    /\ call.fn = "clientValidateUsername" =>
          call.out.isValid = validateUsername(call.arg).isValid
    /\ call.fn = "clientValidateTicketTitle" =>
          call.out.isValid = validateTicketTitle(call.arg).isValid
    /\ call.fn = "clientValidateComment" =>
          call.out.isValid = validateComment(call.arg).isValid

\* C29, for one validator at a time
C29_TitlesAgree ==
    call.fn = "clientValidateTicketTitle" =>
        call.out.isValid = validateTicketTitle(call.arg).isValid

C29_CommentsAgree ==
    call.fn = "clientValidateComment" =>
        call.out.isValid = validateComment(call.arg).isValid

\* C30: no operation changes a stored comment or changes or removes a stored user:
\* a comment is stored with the trimmed content, the ticketId and the requester's id
\* and name of the request that created it, under an id no document had before;
\* from one state to the next every comment still stored is the document it was, and
\* every stored user is still stored as it was.
C30_CommentsAndUsersImmutable ==
    /\ [][\A d \in comments' \ comments :
            /\ \A c \in comments : c.id # d.id
            /\ d.id > nextId
            /\ req'.op = "createComment"
            /\ d.content = Stripped(req'.body.content.s)
            /\ d.ticketId = req'.body.ticketId
            /\ d.userId = RequesterId(req')
            /\ d.username = RequesterName(req')]_vars
    /\ [][\A c \in comments : \A d \in comments' : d.id = c.id => d = c]_vars
    /\ [][users \subseteq users']_vars
    /\ [](\A c \in comments : c.id <= nextId)

\* with two users and a comment stored, a ticket was updated
C30_Witness ==
    /\ req.op = "updateTicket"
    /\ res.status = 200
    /\ Cardinality(users) = 2
    /\ comments # {}

====
